---- MODULE Spec2Model ----
(***************************************************************************)
(* Carrier mapping functions of purplship/karrio:                          *)
(*   purplship/carriers/fedex/freight/rate.py   (FedEx freight rating)     *)
(*   purplship/carriers/dhl/book_pickup.py      (DHL pickup booking)       *)
(* and the data migration of the events module:                            *)
(*   karrio/server/events/migrations/0004_custom_migration_2022_4.py       *)
(*                                                                         *)
(* Python values are modelled as follows.  An attribute that may be None   *)
(* is a sequence of length 0 (None) or 1 (Some(x)); a list is a sequence;  *)
(* a call either returns a value or raises: Return(v) / Raise(e).          *)
(* Amounts and weights are integers; wire weights are in thousandths of a  *)
(* unit so that the KG/LB conversion is visible.                           *)
(***************************************************************************)
EXTENDS Integers, Sequences, FiniteSets, TLC

\* pc:       "idle" (the caller holds no result) or "done" (a call has returned or raised)
\* op, arg:  the function last called and its argument
\* result:   what that call returned or raised
\* called_at: the clock when op(arg) was first called
\* clock:    the wall clock, read by datetime.now()
\* db:       the Event and Webhook tables of the events app
\* db0:      the tables as they were before migration 0004 was first run
\* migration: "0003" (0004 not applied), "0004" (applied by forwards_func) or
\*           "0003_reversed" (0004 unapplied by reverse_func)
VARIABLES pc, op, arg, result, called_at, clock, db, db0, migration

vars == <<pc, op, arg, result, called_at, clock, db, db0, migration>>
dbvars == <<db, db0, migration>>

\* --------------------------------------------------------------- bounds
\* number of nodes in each of the discount / surcharge / tax lists
MaxCharges == 2
\* number of RateReplyDetails nodes in a FedEx response
MaxDetails == 2
\* number of error (notification / condition) nodes in a response
MaxErrors == 1
\* the wall clock read by datetime.now() takes the values 0..MaxClock
MaxClock == 1
\* number of requested service codes in a rate request
MaxServices == 2
\* number of items (packages) in a rate request
MaxItems == 2
\* number of rows of the Event table
MaxEvents == 2
\* number of rows of the Webhook table
MaxWebhooks == 1
\* number of entries of a webhook's enabled_events
MaxEnabledEvents == 2

\* ------------------------------------------------------- Python values
None == <<>>
Some(x) == <<x>>
IsNone(o) == o = None
Val(o) == o[1]

Return(v) == [kind |-> "return", value |-> v]
Raise(e) == [kind |-> "raise", error |-> e]
Returned(r) == r.kind = "return"
Raised(r) == r.kind = "raise"

\* the sequence s with f applied to each element
RECURSIVE SeqMap(_, _)
SeqMap(f(_), s) == IF s = <<>> THEN <<>> ELSE <<f(Head(s))>> \o SeqMap(f, Tail(s))

\* the elements of s that satisfy p, in order
RECURSIVE SeqFilter(_, _)
SeqFilter(p(_), s) ==
    IF s = <<>> THEN <<>>
    ELSE (IF p(Head(s)) THEN <<Head(s)>> ELSE <<>>) \o SeqFilter(p, Tail(s))

\* all sequences over S of length lo..hi
SeqsOf(S, lo, hi) == UNION {[1..n -> S] : n \in lo..hi}

\* reduce(lambda v, c: c.text, nodes, initial): the text of the last node
reduce_last(nodes, initial) == IF nodes = <<>> THEN initial ELSE nodes[Len(nodes)]

\* ------------------------------------------------------------ settings
FedexSettings == [carrier_name |-> "fedex", account_number |-> "510087780"]
DHLSettings == [carrier_name |-> "dhl", account_number |-> "123456789"]

\* ================================================= FedEx rate response
\* A DeliveryTimestamp text is the sequence of its parts; it matches
\* "%Y-%m-%dT%H:%M:%S" when it is <<date, "T", time>>.
strptime_matches(text) == Len(text) = 3 /\ text[2] = "T"
\* strptime(...).strftime("%Y-%m-%d")
strftime_date(text) == text[1]

\* ChargeDetails built from one discount / surcharge / tax node
DiscountCharge(d, currency_) ==
    [name |-> d.RateDiscountType, amount |-> Val(d.Amount), currency |-> currency_]
SurchargeCharge(s, currency_) ==
    [name |-> s.SurchargeType, amount |-> Val(s.Amount), currency |-> currency_]
TaxCharge(t, currency_) ==
    [name |-> t.TaxType, amount |-> Val(t.Amount), currency |-> currency_]

\* a node without Amount makes d.Amount.Amount raise when the map is consumed
HasAmount(node) == ~IsNone(node.Amount)
AllHaveAmount(nodes) == \A i \in 1..Len(nodes) : HasAmount(nodes[i])

Discounts_(shipmentDetail, currency_) ==
    LET f(d) == DiscountCharge(d, currency_) IN SeqMap(f, shipmentDetail.FreightDiscounts)
Surcharges_(shipmentDetail, currency_) ==
    LET f(s) == SurchargeCharge(s, currency_) IN SeqMap(f, shipmentDetail.Surcharges)
Taxes_(shipmentDetail, currency_) ==
    LET f(t) == TaxCharge(t, currency_) IN SeqMap(f, shipmentDetail.Taxes)

extra_charges_taxes_first(shipmentDetail, currency_) ==
    Taxes_(shipmentDetail, currency_) \o Surcharges_(shipmentDetail, currency_)
        \o Discounts_(shipmentDetail, currency_)

\* list(Discounts_) + list(Surcharges_) + list(Taxes_)
extra_charges(shipmentDetail, currency_) ==
    Discounts_(shipmentDetail, currency_) \o Surcharges_(shipmentDetail, currency_)
        \o Taxes_(shipmentDetail, currency_)

\* _extract_quote: the keyword arguments of RateDetails(...) are evaluated in
\* the order written, so the first failing one decides the exception.
_extract_quote(detail_node, settings) ==
    IF detail_node.RatedShipmentDetails = <<>> THEN Return(None)
    ELSE
    LET shipmentDetail == detail_node.RatedShipmentDetails[1]
        delivery_ == reduce_last(detail_node.DeliveryTimestamp, None)
        currency_ == reduce_last(detail_node.Currency, "USD")
    IN  IF ~IsNone(delivery_) /\ ~strptime_matches(delivery_) THEN Raise("ValueError")
        ELSE IF IsNone(shipmentDetail.TotalBaseCharge) THEN Raise("AttributeError")
        ELSE IF IsNone(shipmentDetail.TotalNetChargeWithDutiesAndTaxes)
            THEN Raise("AttributeError")
        ELSE IF IsNone(shipmentDetail.TotalTaxes) THEN Raise("AttributeError")
        ELSE IF IsNone(shipmentDetail.TotalFreightDiscounts) THEN Raise("AttributeError")
        ELSE IF ~AllHaveAmount(shipmentDetail.FreightDiscounts)
                \/ ~AllHaveAmount(shipmentDetail.Surcharges)
                \/ ~AllHaveAmount(shipmentDetail.Taxes) THEN Raise("AttributeError")
        ELSE Return(Some([
            carrier |-> settings.carrier_name,
            service_name |-> detail_node.ServiceType,
            service_type |-> detail_node.ActualRateType,
            currency |-> currency_,
            delivery_date |->
                IF IsNone(delivery_) THEN None ELSE Some(strftime_date(delivery_)),
            base_charge |-> Val(shipmentDetail.TotalBaseCharge),
            total_charge |-> Val(shipmentDetail.TotalNetChargeWithDutiesAndTaxes),
            duties_and_taxes |-> Val(shipmentDetail.TotalTaxes),
            discount |-> Val(shipmentDetail.TotalFreightDiscounts),
            extra_charges |-> extra_charges(shipmentDetail, currency_)]))

\* Error Collector of the FedEx adapter: one Error per notification node
fedex_parse_error_response(response, settings) ==
    LET f(n) == [carrier |-> settings.carrier_name, code |-> n.Code, message |-> n.Message]
    IN  SeqMap(f, response.Notifications)

parse_rate_response(response, settings) ==
    LET rate_reply == response.RateReplyDetails
        quote(detail_node) == _extract_quote(detail_node, settings)
        rate_details == SeqMap(quote, rate_reply)
        failed(r) == Raised(r)
        extracted(r) == ~IsNone(r.value)
        details(r) == Val(r.value)
    IN  IF SeqFilter(failed, rate_details) # <<>>
        THEN Raise(Head(SeqFilter(failed, rate_details)).error)
        ELSE Return(<<SeqMap(details, SeqFilter(extracted, rate_details)),
                      fedex_parse_error_response(response, settings)>>)

\* ======================================================= unit conversion
\* purplship.core.units.WeightUnit / DimensionUnit: the unit tags with a
\* conversion table entry
WeightUnit == {"KG", "LB"}
DimensionUnit == {"CM", "IN"}

\* Weight(value, unit).LB in thousandths of a pound
\* (1 lb = 0.453592 kg, that is 1 kg = 2.20462 lb)
WeightLB(value, unit) ==
    IF unit = "LB" THEN value * 1000 ELSE (value * 220462) \div 100
\* Weight(value, unit).KG in thousandths of a kilogram
WeightKG(value, unit) ==
    IF unit = "KG" THEN value * 1000 ELSE (value * 453592) \div 1000
\* Weight(value, unit).value: the value expressed in its own unit
WeightValue(value, unit) ==
    IF unit = "LB" THEN WeightLB(value, unit) ELSE WeightKG(value, unit)
\* Dimension(value, unit).value: the value expressed in its own unit
DimensionValue(value, unit) == value * 1000

\* Python truthiness of an optional string / number: None, "" and 0 are falsy
Truthy(o) == ~IsNone(o) /\ Val(o) # ""
TruthyNum(o) == ~IsNone(o) /\ Val(o) # 0
\* x or default
OrElse(o, default) == IF Truthy(o) THEN Val(o) ELSE default

\* ================================================= DHL pickup response
\* Error Collector of the DHL adapter: one Error per condition node
dhl_parse_error_response(response, settings) ==
    LET f(c) == [carrier |-> settings.carrier_name, code |-> c.ConditionCode,
                 message |-> c.ConditionData]
    IN  SeqMap(f, response.Condition)

TimeDetails(n, v) == [name |-> n, value |-> v]

\* [] if R is None else [R] + [] if C is None else [C]
\* Python parses it as: [] if R is None else (([R] + []) if C is None else [C])
ref_times(pickup) ==
    IF IsNone(pickup.ReadyByTime) THEN <<>>
    ELSE IF IsNone(pickup.CallInTime)
         THEN <<TimeDetails("ReadyByTime", Val(pickup.ReadyByTime))>> \o <<>>
         ELSE <<TimeDetails("CallInTime", Val(pickup.CallInTime))>>

_extract_pickup(response, settings) ==
    LET pickup == response
        pickup_charge ==
            IF ~IsNone(pickup.PickupCharge)
            THEN Some([name |-> "Pickup Charge", amount |-> Val(pickup.PickupCharge),
                       currency |-> pickup.CurrencyCode])
            ELSE None
    IN  IF pickup.ConfirmationNumber = <<>> THEN Raise("IndexError")
        ELSE Return([
            carrier |-> settings.carrier_name,
            confirmation_number |-> pickup.ConfirmationNumber[1],
            pickup_date |-> pickup.NextPickupDate,
            pickup_charge |-> pickup_charge,
            ref_times |-> ref_times(pickup)])

\* the pickup is extracted only when no error node is present
parse_book_pickup_response_exclusive(response, settings) ==
    LET successful == Len(response.ConfirmationNumber) > 0 /\ response.Condition = <<>>
        pickup == IF successful THEN _extract_pickup(response, settings) ELSE Return(None)
    IN  IF Raised(pickup) THEN pickup
        ELSE Return(<<IF successful THEN Some(pickup.value) ELSE None,
                      dhl_parse_error_response(response, settings)>>)

parse_book_pickup_response(response, settings) ==
    LET successful == Len(response.ConfirmationNumber) > 0
        pickup == IF successful THEN _extract_pickup(response, settings) ELSE Return(None)
    IN  IF Raised(pickup) THEN pickup
        ELSE Return(<<IF successful THEN Some(pickup.value) ELSE None,
                      dhl_parse_error_response(response, settings)>>)

\* ================================================== DHL pickup request
\* purplship.carriers.dhl.units.CountryRegion: country code -> DHL region
CountryRegion == [c \in {"CA", "FR", "JP"} |->
    CASE c = "CA" -> "AM" [] c = "FR" -> "EU" [] c = "JP" -> "AP"]
\* purplship.carriers.dhl.units.WeightUnit: unit -> the tag of the DHL schema
DHLWeightUnit == [u \in {"KG", "LB"} |-> IF u = "KG" THEN "K" ELSE "L"]

\* the region is looked up whether or not the country code is set
RegionCode_no_default(payload) ==
    IF Truthy(payload.country_code) /\ Val(payload.country_code) \in DOMAIN CountryRegion
    THEN Return(CountryRegion[Val(payload.country_code)])
    ELSE Raise("KeyError")

\* RegionCode=CountryRegion[payload.country_code].value if payload.country_code else "AM"
RegionCode(payload) ==
    IF Truthy(payload.country_code)
    THEN (IF Val(payload.country_code) \in DOMAIN CountryRegion
          THEN Return(CountryRegion[Val(payload.country_code)]) ELSE Raise("KeyError"))
    ELSE Return("AM")

\* weight=WeightSeg(Weight=Weight(payload.weight, WeightUnit[weight_unit]).LB,
\*                  WeightUnit=DHLWeightUnit[weight_unit].value)
\*        if payload.weight is not None else None
WeightSeg(payload, weight_unit) ==
    IF IsNone(payload.weight) THEN Return(None)
    ELSE IF weight_unit \notin WeightUnit THEN Raise("KeyError")
    ELSE Return(Some([Weight |-> WeightLB(Val(payload.weight), weight_unit),
                      WeightUnit |-> DHLWeightUnit[weight_unit]]))

book_pickup_request(payload, settings) ==
    LET weight_unit == OrElse(payload.weight_unit, "LB")
        region == RegionCode(payload)
        weight == WeightSeg(payload, weight_unit)
    IN  IF Raised(region) THEN region
        ELSE IF Raised(weight) THEN weight
        ELSE Return([
            schemaVersion |-> 3,
            RegionCode |-> Some(region.value),
            Requestor |-> [AccountNumber |-> payload.account_number,
                           AccountType |-> "D"],
            Place |-> [
                CountryCode |-> payload.country_code,
                PackageLocation |-> payload.package_location,
                LocationType |-> Some(IF payload.is_business = Some(TRUE) THEN "B" ELSE "R"),
                Address1 |-> IF Len(payload.address_lines) > 0
                             THEN Some(payload.address_lines[1]) ELSE None,
                Address2 |-> IF Len(payload.address_lines) > 1
                             THEN Some(payload.address_lines[2]) ELSE None],
            Pickup |-> [
                SpecialInstructions |-> <<payload.instruction>>,
                RemotePickupFlag |-> "Y",
                weight |-> weight.value]])

\* ================================================== FedEx rate request
\* purplship.carriers.fedex.units.ServiceType / PackagingType: member name -> code
ServiceType == [n \in {"FEDEX_FREIGHT_ECONOMY", "FEDEX_FREIGHT_PRIORITY"} |-> n]
PackagingType == [n \in {"FEDEX_BOX", "YOUR_PACKAGING"} |-> n]

\* sum(p.weight for p in items)
RECURSIVE sum_weights(_)
sum_weights(items) ==
    IF items = <<>> THEN 0 ELSE Head(items).weight + sum_weights(Tail(items))

\* [svc for svc in payload.shipment.services if svc in ServiceType.__members__]
requested_services(payload) ==
    LET known(svc) == svc \in DOMAIN ServiceType
    IN  Return(SeqFilter(known, payload.shipment.services))

\* payload.shipment.total_weight or sum(p.weight for p in payload.shipment.items)
total_weight_or_sum(payload) ==
    IF TruthyNum(payload.shipment.total_weight) THEN Val(payload.shipment.total_weight)
    ELSE sum_weights(payload.shipment.items)

\* Tins=[TaxpayerIdentification(Number=payload.shipper.tax_id, ...)]
\*      if payload.recipient.tax_id is not None else None      (both parties)
Tins(payload, party) ==
    IF ~IsNone(payload.recipient.tax_id)
    THEN Some(<<[TinType |-> None, Number |-> payload.shipper.tax_id]>>)
    ELSE None

\* a packaging type with no FedEx equivalent falls back to the default
PackagingTypeCode_lenient(payload) ==
    LET name == OrElse(payload.shipment.packaging_type, "YOUR_PACKAGING")
    IN  IF name \in DOMAIN PackagingType THEN Return(PackagingType[name])
        ELSE Return(PackagingType["YOUR_PACKAGING"])

\* PackagingType[payload.shipment.packaging_type or "YOUR_PACKAGING"].value
PackagingTypeCode(payload) ==
    LET name == OrElse(payload.shipment.packaging_type, "YOUR_PACKAGING")
    IN  IF name \in DOMAIN PackagingType THEN Return(PackagingType[name])
        ELSE Raise("KeyError")

\* the transaction id is made unique per call
CustomerTransactionId_per_call == <<"FTC", clock>>

\* TransactionDetail(CustomerTransactionId="FTC")
CustomerTransactionId == <<"FTC">>

\* ShipTimestamp=datetime.now()
ShipTimestamp == clock

RequestedPackageLineItems(payload, weight_unit, dimension_unit) ==
    [index \in 1..Len(payload.shipment.items) |->
        LET pkg == payload.shipment.items[index] IN
        [SequenceNumber |-> index,
         GroupPackageCount |-> index,
         Weight |-> [Units |-> weight_unit, Value |-> WeightValue(pkg.weight, weight_unit)],
         Dimensions |-> [Length |-> DimensionValue(pkg.length, dimension_unit),
                         Units |-> dimension_unit]]]

rate_request(payload, settings) ==
    LET dimension_unit == OrElse(payload.shipment.dimension_unit, "IN")
        weight_unit == OrElse(payload.shipment.weight_unit, "LB")
        services == requested_services(payload)
        packaging == PackagingTypeCode(payload)
    IN  IF Raised(services) THEN services
        ELSE IF Raised(packaging) THEN packaging
        ELSE IF weight_unit \notin WeightUnit THEN Raise("KeyError")
        ELSE IF payload.shipment.items # <<>> /\ dimension_unit \notin DimensionUnit
            THEN Raise("KeyError")
        ELSE Return([
            CustomerTransactionId |-> CustomerTransactionId,
            ShipTimestamp |-> ShipTimestamp,
            DropoffType |-> "REGULAR_PICKUP",
            ServiceType |-> IF Len(services.value) > 0
                            THEN Some(ServiceType[services.value[1]]) ELSE None,
            PackagingType |-> Some(packaging.value),
            TotalWeight |-> [Units |-> weight_unit,
                             Value |-> WeightValue(total_weight_or_sum(payload), weight_unit)],
            PreferredCurrency |-> payload.shipment.currency,
            Shipper |-> [
                AccountNumber |-> Some(OrElse(payload.shipper.account_number,
                                              settings.account_number)),
                Tins |-> Tins(payload, "shipper")],
            Recipient |-> [
                AccountNumber |-> payload.recipient.account_number,
                Tins |-> Tins(payload, "recipient")],
            FreightShipmentDetail |-> [
                FedExFreightAccountNumber |->
                    Some(OrElse(payload.shipper.account_number, settings.account_number))],
            RateRequestTypes |-> <<"LIST">> \o (IF ~Truthy(payload.shipment.currency)
                                                THEN <<>> ELSE <<"PREFERRED">>),
            PackageCount |-> Len(payload.shipment.items),
            RequestedPackageLineItems |->
                RequestedPackageLineItems(payload, weight_unit, dimension_unit)])

\* ====================================================== input domains
\* ---- FedEx rate reply details
GoodTimestamp == <<"2020-05-01", "T", "10:30:00">>
DateOnlyTimestamp == <<"2020-05-01">>

\* what a rate reply detail may lack
Defects == {"none", "TotalBaseCharge", "TotalNetChargeWithDutiesAndTaxes", "TotalTaxes",
            "TotalFreightDiscounts", "FreightDiscounts", "Surcharges", "Taxes",
            "DeliveryTimestamp"}

\* the i-th node of a list carries the amount 100 * i; with bad, the last has none
NodeAmount(i, n, bad) == IF bad /\ i = n THEN None ELSE Some(100 * i)
FreightDiscountNodes(n, bad) ==
    [i \in 1..n |-> [RateDiscountType |-> "VOLUME", Amount |-> NodeAmount(i, n, bad)]]
SurchargeNodes(n, bad) ==
    [i \in 1..n |-> [SurchargeType |-> "FUEL", Amount |-> NodeAmount(i, n, bad)]]
TaxNodes(n, bad) ==
    [i \in 1..n |-> [TaxType |-> "GST", Amount |-> NodeAmount(i, n, bad)]]

DetailNode(nD, nS, nT, defect, timestamps, currencies) ==
    [ServiceType |-> "FEDEX_FREIGHT_PRIORITY",
     ActualRateType |-> "PAYOR_ACCOUNT_SHIPMENT",
     RatedShipmentDetails |-> <<[
        TotalBaseCharge |-> IF defect = "TotalBaseCharge" THEN None ELSE Some(1000),
        TotalNetChargeWithDutiesAndTaxes |->
            IF defect = "TotalNetChargeWithDutiesAndTaxes" THEN None ELSE Some(1200),
        TotalTaxes |-> IF defect = "TotalTaxes" THEN None ELSE Some(150),
        TotalFreightDiscounts |->
            IF defect = "TotalFreightDiscounts" THEN None ELSE Some(50),
        FreightDiscounts |-> FreightDiscountNodes(nD, defect = "FreightDiscounts"),
        Surcharges |-> SurchargeNodes(nS, defect = "Surcharges"),
        Taxes |-> TaxNodes(nT, defect = "Taxes")]>>,
     DeliveryTimestamp |->
        IF defect = "DeliveryTimestamp" THEN <<DateOnlyTimestamp>> ELSE timestamps,
     Currency |-> currencies]

\* a rate reply detail without rated shipment details
UnratedDetailNode ==
    [ServiceType |-> "FEDEX_FREIGHT_ECONOMY",
     ActualRateType |-> "PAYOR_ACCOUNT_SHIPMENT",
     RatedShipmentDetails |-> <<>>,
     DeliveryTimestamp |-> <<>>,
     Currency |-> <<>>]

DetailNodes ==
    {UnratedDetailNode} \cup
    {DetailNode(nD, nS, nT, defect, ts, cur) :
        nD \in 0..MaxCharges, nS \in 0..MaxCharges, nT \in 0..MaxCharges,
        defect \in Defects, ts \in {<<>>, <<GoodTimestamp>>},
        cur \in {<<>>, <<"USD", "CAD">>}}

\* ---- FedEx rate responses: the details of a whole response carry one node
\* per list, and differ in what they lack
ResponseDetailNodes ==
    {UnratedDetailNode} \cup
    {DetailNode(1, 1, 1, defect, <<GoodTimestamp>>, <<"CAD">>) : defect \in Defects}

NotificationNodes == {[Code |-> "521", Message |-> "Destination postal code missing"]}

RateResponses ==
    [RateReplyDetails : SeqsOf(ResponseDetailNodes, 0, MaxDetails),
     Notifications : SeqsOf(NotificationNodes, 0, MaxErrors)]

\* ---- FedEx rate requests
Items == {[weight |-> 3, length |-> 10]}

RateRequests ==
    [shipper : [account_number : {None, Some("2349857")},
                tax_id : {None, Some("TIN-SHIPPER")}],
     recipient : [account_number : {None},
                  tax_id : {None, Some("TIN-RECIPIENT")}],
     shipment : [dimension_unit : {None, Some("CM")},
                 weight_unit : {None, Some("LB"), Some("KG"), Some("OZ")},
                 services : SeqsOf({"FEDEX_FREIGHT_PRIORITY", "UPS_GROUND"}, 0, MaxServices),
                 packaging_type : {None, Some("FEDEX_BOX"), Some("CRATE")},
                 total_weight : {None, Some(0), Some(7)},
                 items : SeqsOf(Items, 0, MaxItems),
                 currency : {None, Some("CAD")}]]

\* ---- DHL pickup responses
ConditionNodes == {[ConditionCode |-> "PU012", ConditionData |-> "Pickup NOT scheduled"]}

PickupResponses ==
    [ConfirmationNumber : {<<>>, <<"1234">>, <<"1234", "5678">>},
     ReadyByTime : {None, Some("10:30")},
     CallInTime : {None, Some("08:30")},
     NextPickupDate : {None, Some("2020-05-02")},
     PickupCharge : {None, Some(5)},
     CurrencyCode : {None, Some("USD")},
     Condition : SeqsOf(ConditionNodes, 0, MaxErrors)]

\* ---- DHL pickup requests
PickupRequests ==
    [account_number : {Some("123456789")},
     weight : {None, Some(50)},
     weight_unit : {None, Some(""), Some("LB"), Some("KG"), Some("OZ")},
     country_code : {None, Some(""), Some("CA"), Some("FR"), Some("ZZ")},
     is_business : {None, Some(TRUE), Some(FALSE)},
     address_lines : SeqsOf({"10 Main St"}, 0, 2),
     package_location : {None, Some("behind the front desk")},
     instruction : {None}]

\* ============================================= events data migration
\* An event type is the sequence of the parts of its text: words, "." and "_".
\* str.replace(old, new)
str_replace(text, old, new) ==
    [i \in 1..Len(text) |-> IF text[i] = old THEN new ELSE text[i]]
\* the lookup type__contains=c
type__contains(text, c) == \E i \in 1..Len(text) : text[i] = c

\* forwards_func: every event whose type holds "." gets "." replaced by "_";
\* every webhook gets "." replaced by "_" in each of its enabled_events
forwards_func(database) ==
    [events |-> [i \in 1..Len(database.events) |->
                    IF type__contains(database.events[i], ".")
                    THEN str_replace(database.events[i], ".", "_")
                    ELSE database.events[i]],
     webhooks |-> [w \in 1..Len(database.webhooks) |->
                    [i \in 1..Len(database.webhooks[w]) |->
                        str_replace(database.webhooks[w][i], ".", "_")]]]

\* reverse_func: every event whose type holds "." gets "_" replaced by ".";
\* every webhook gets "_" replaced by "." in each of its enabled_events
reverse_func(database) ==
    [events |-> [i \in 1..Len(database.events) |->
                    IF type__contains(database.events[i], ".")
                    THEN str_replace(database.events[i], "_", ".")
                    ELSE database.events[i]],
     webhooks |-> [w \in 1..Len(database.webhooks) |->
                    [i \in 1..Len(database.webhooks[w]) |->
                        str_replace(database.webhooks[w][i], "_", ".")]]]

\* ---- the tables before the migration
EventTypes == {<<"all">>,
               <<"shipment", ".", "purchased">>,
               <<"tracker", ".", "updated">>,
               <<"shipment", ".", "label", "_", "created">>}

EmptyDatabase == [events |-> <<>>, webhooks |-> <<>>]

Databases ==
    [events : SeqsOf(EventTypes, 0, MaxEvents),
     webhooks : SeqsOf(SeqsOf(EventTypes, 0, MaxEnabledEvents), 0, MaxWebhooks)]

\* ======================================================== state machine
\* the call o(a, settings)
Invoke(o, a) ==
    CASE o = "_extract_quote" -> _extract_quote(a, FedexSettings)
      [] o = "parse_rate_response" -> parse_rate_response(a, FedexSettings)
      [] o = "rate_request" -> rate_request(a, FedexSettings)
      [] o = "parse_book_pickup_response" -> parse_book_pickup_response(a, DHLSettings)
      [] o = "book_pickup_request" -> book_pickup_request(a, DHLSettings)

Init ==
    /\ pc = "idle"
    /\ op = "none"
    /\ arg = None
    /\ result = None
    /\ called_at = 0
    /\ clock = 0
    /\ db = EmptyDatabase
    /\ db0 = EmptyDatabase
    /\ migration = "0003"

\* the caller, holding no result, calls o(a, settings)
Call(o, a) ==
    /\ pc' = "done"
    /\ op' = o
    /\ arg' = a
    /\ result' = Invoke(o, a)
    /\ called_at' = clock
    /\ UNCHANGED <<clock, dbvars>>

ExtractQuote ==
    /\ pc = "idle"
    /\ \E detail_node \in DetailNodes : Call("_extract_quote", detail_node)
ParseRateResponse ==
    /\ pc = "idle"
    /\ \E response \in RateResponses : Call("parse_rate_response", response)
RateRequest ==
    /\ pc = "idle"
    /\ \E payload \in RateRequests : Call("rate_request", payload)
ParseBookPickupResponse ==
    /\ pc = "idle"
    /\ \E response \in PickupResponses : Call("parse_book_pickup_response", response)
BookPickupRequest ==
    /\ pc = "idle"
    /\ \E payload \in PickupRequests : Call("book_pickup_request", payload)

\* the caller invokes the same function again with the same arguments
CallAgain ==
    /\ pc = "done"
    /\ result' = Invoke(op, arg)
    /\ UNCHANGED <<pc, op, arg, called_at, clock, dbvars>>

\* the caller takes the result
Finish ==
    /\ pc = "done"
    /\ pc' = "idle"
    /\ op' = "none"
    /\ arg' = None
    /\ result' = None
    /\ called_at' = 0
    /\ UNCHANGED <<clock, dbvars>>

\* time passes
Tick ==
    /\ clock < MaxClock
    /\ clock' = clock + 1
    /\ UNCHANGED <<pc, op, arg, result, called_at, dbvars>>

Next ==
    \/ ExtractQuote
    \/ ParseRateResponse
    \/ RateRequest
    \/ ParseBookPickupResponse
    \/ BookPickupRequest
    \/ CallAgain
    \/ Finish
    \/ Tick

Spec == Init /\ [][Next]_vars

\* ---- the migration 0004 of the events app, run and unrun by manage.py migrate
MigrationInit ==
    /\ pc = "idle"
    /\ op = "none"
    /\ arg = None
    /\ result = None
    /\ called_at = 0
    /\ clock = 0
    /\ db \in Databases
    /\ db0 = db
    /\ migration = "0003"

\* migrate events 0004: RunPython(forwards_func, reverse_func) forwards
Forwards ==
    /\ migration \in {"0003", "0003_reversed"}
    /\ db' = forwards_func(db)
    /\ migration' = "0004"
    /\ UNCHANGED <<pc, op, arg, result, called_at, clock, db0>>

\* migrate events 0003: RunPython(forwards_func, reverse_func) backwards
Reverse ==
    /\ migration = "0004"
    /\ db' = reverse_func(db)
    /\ migration' = "0003_reversed"
    /\ UNCHANGED <<pc, op, arg, result, called_at, clock, db0>>

MigrationNext ==
    \/ Forwards
    \/ Reverse

MigrationSpec == MigrationInit /\ [][MigrationNext]_vars

\* ============================================================== claims
Called(o) == pc = "done" /\ op = o

\* ---- C1
\* a rate reply detail from which a quote can be extracted: it has rated
\* shipment details, all four totals, an amount in every line item, and no
\* DeliveryTimestamp or one in the expected format
WellFormedDetail(d) ==
    /\ d.RatedShipmentDetails # <<>>
    /\ LET sd == d.RatedShipmentDetails[1] IN
        /\ ~IsNone(sd.TotalBaseCharge)
        /\ ~IsNone(sd.TotalNetChargeWithDutiesAndTaxes)
        /\ ~IsNone(sd.TotalTaxes)
        /\ ~IsNone(sd.TotalFreightDiscounts)
        /\ \A i \in 1..Len(sd.FreightDiscounts) : ~IsNone(sd.FreightDiscounts[i].Amount)
        /\ \A i \in 1..Len(sd.Surcharges) : ~IsNone(sd.Surcharges[i].Amount)
        /\ \A i \in 1..Len(sd.Taxes) : ~IsNone(sd.Taxes[i].Amount)
    /\ \A i \in 1..Len(d.DeliveryTimestamp) :
        d.DeliveryTimestamp[i] \in {<<>>, GoodTimestamp}

\* the currency the document states last, USD when it states none
DocumentCurrency(d) ==
    IF Len(d.Currency) = 0 THEN "USD" ELSE d.Currency[Len(d.Currency)]

\* [D1..Dm, S1..Sn, T1..Tk] of the first rated shipment detail, by position
ChargesInDocumentOrder(d) ==
    LET sd == d.RatedShipmentDetails[1]
        m == Len(sd.FreightDiscounts)
        n == Len(sd.Surcharges)
        k == Len(sd.Taxes)
    IN  [i \in 1..(m + n + k) |->
            IF i <= m
            THEN [name |-> sd.FreightDiscounts[i].RateDiscountType,
                  amount |-> sd.FreightDiscounts[i].Amount[1],
                  currency |-> DocumentCurrency(d)]
            ELSE IF i <= m + n
            THEN [name |-> sd.Surcharges[i - m].SurchargeType,
                  amount |-> sd.Surcharges[i - m].Amount[1],
                  currency |-> DocumentCurrency(d)]
            ELSE [name |-> sd.Taxes[i - m - n].TaxType,
                  amount |-> sd.Taxes[i - m - n].Amount[1],
                  currency |-> DocumentCurrency(d)]]

\* C1: for every well-formed rate reply detail whose first rated shipment
\* detail carries discounts D1..Dm, surcharges S1..Sn and taxes T1..Tk,
\* _extract_quote returns a RateDetails whose extra_charges is exactly
\* [D1..Dm, S1..Sn, T1..Tk], one ChargeDetails per node, nothing dropped,
\* duplicated or reordered.
C1_ExtraChargesInDocumentOrder ==
    (Called("_extract_quote") /\ WellFormedDetail(arg)) =>
        /\ Returned(result)
        /\ ~IsNone(result.value)
        /\ Val(result.value).extra_charges = ChargesInDocumentOrder(arg)

\* C1 witness: two discounts, one surcharge and two taxes were extracted
C1_Witness ==
    /\ Called("_extract_quote")
    /\ WellFormedDetail(arg)
    /\ Len(arg.RatedShipmentDetails[1].FreightDiscounts) = 2
    /\ Len(arg.RatedShipmentDetails[1].Surcharges) = 1
    /\ Len(arg.RatedShipmentDetails[1].Taxes) = 2
    /\ Returned(result)
    /\ Len(Val(result.value).extra_charges) = 5
    /\ Val(result.value).extra_charges[3].name = "FUEL"

\* ---- C2
\* C2: for every RateRequest with at least one item, rate_request emits a
\* TotalWeight whose Value is the sum of the item weights when total_weight
\* is unset, and total_weight whenever it is set, 0 included (wire values are
\* in thousandths of the request's unit).
C2_TotalWeightOverride ==
    (Called("rate_request") /\ arg.shipment.items # <<>> /\ Returned(result)) =>
        result.value.TotalWeight.Value =
            1000 * (IF arg.shipment.total_weight = None
                    THEN sum_weights(arg.shipment.items)
                    ELSE arg.shipment.total_weight[1])

\* ---- C3
\* the ref_times in which each entry is kept exactly when its source is present
RefTimesEachIfPresent(response) ==
    (IF response.ReadyByTime = None THEN <<>>
     ELSE <<[name |-> "ReadyByTime", value |-> response.ReadyByTime[1]]>>)
    \o (IF response.CallInTime = None THEN <<>>
        ELSE <<[name |-> "CallInTime", value |-> response.CallInTime[1]]>>)

\* C3: for every DHL pickup response with a success marker, ref_times holds a
\* ReadyByTime entry iff ReadyByTime is present and a CallInTime entry iff
\* CallInTime is present, ReadyByTime first when both are.
C3_RefTimesPresence ==
    (Called("parse_book_pickup_response") /\ arg.ConfirmationNumber # <<>>
        /\ Returned(result)) =>
        Val(result.value[1]).ref_times = RefTimesEachIfPresent(arg)

\* ---- C4
\* C4: for every PickupRequest with a weight, book_pickup_request emits a
\* weight segment whose value is the weight converted to LB and whose unit tag
\* names the unit of that value (pounds); 50 KG gives about 110.23 lb; without
\* a weight no segment is emitted.
C4_WeightSegInPounds ==
    (Called("book_pickup_request") /\ Returned(result)) =>
        LET seg == result.value.Pickup.weight
            unit == IF arg.weight_unit \in {None, Some("")} THEN "LB"
                    ELSE arg.weight_unit[1]
        IN  IF arg.weight = None THEN seg = None
            ELSE /\ seg # None
                 /\ Val(seg).Weight = WeightLB(arg.weight[1], unit)
                 /\ Val(seg).WeightUnit = DHLWeightUnit["LB"]
                 /\ (arg.weight = Some(50) /\ unit = "KG") =>
                        Val(seg).Weight \in 110225..110235

\* ---- C5
\* the Error Collector's output, node by node
CollectedErrors(response) ==
    [i \in 1..Len(response.Condition) |->
        [carrier |-> "dhl", code |-> response.Condition[i].ConditionCode,
         message |-> response.Condition[i].ConditionData]]

\* C5: for every response tree, parse_book_pickup_response returns a pair
\* whose first component is null exactly when the tree holds no
\* ConfirmationNumber element and whose second is the Error Collector's
\* output, computed with or without the success marker; neither marker nor
\* error node gives (null, []), both give a result and a non-empty list.
C5_ResultAndErrorsIndependent ==
    Called("parse_book_pickup_response") =>
        /\ Returned(result)
        /\ (result.value[1] = None) <=> (arg.ConfirmationNumber = <<>>)
        /\ result.value[2] = CollectedErrors(arg)
        /\ (arg.ConfirmationNumber = <<>> /\ arg.Condition = <<>>) =>
                result.value = <<None, <<>>>>
        /\ (arg.ConfirmationNumber # <<>> /\ arg.Condition # <<>>) =>
                (result.value[1] # None /\ result.value[2] # <<>>)

\* C5 witness: a response with both a confirmation number and an error node
\* was parsed into a pickup and a non-empty error list
C5_Witness ==
    /\ Called("parse_book_pickup_response")
    /\ arg.ConfirmationNumber # <<>>
    /\ arg.Condition # <<>>
    /\ Returned(result)
    /\ result.value[1] # None
    /\ Len(result.value[2]) = 1

\* ---- C6
Builders == {"rate_request", "book_pickup_request"}

\* the step from one result of a builder to the next one for the same request
SameRequestBuiltAgain ==
    /\ pc = "done" /\ pc' = "done"
    /\ op \in Builders /\ op' = op
    /\ arg' = arg

\* a rate_request outcome, its ShipTimestamp left out
SansShipTimestamp(r) ==
    IF Returned(r) THEN [r EXCEPT !.value.ShipTimestamp = 0] ELSE r

UnmappedService(payload) ==
    \E i \in 1..Len(payload.shipment.services) :
        payload.shipment.services[i] \notin DOMAIN ServiceType
UnmappedPackaging(payload) ==
    /\ payload.shipment.packaging_type \notin {None, Some("")}
    /\ payload.shipment.packaging_type[1] \notin DOMAIN PackagingType
UnmappedCountry(payload) ==
    /\ payload.country_code \notin {None, Some("")}
    /\ payload.country_code[1] \notin DOMAIN CountryRegion
UnsupportedUnit(unit) == unit \notin {None, Some(""), Some("KG"), Some("LB")}

\* the code of the first requested service that FedEx knows, if any
FirstMappedService(payload) ==
    LET known == {i \in 1..Len(payload.shipment.services) :
                    payload.shipment.services[i] \in DOMAIN ServiceType}
    IN  IF known = {} THEN None
        ELSE Some(ServiceType[payload.shipment.services[
                CHOOSE i \in known : \A j \in known : i <= j]])

\* C7 (as claimed): whenever a service code, packaging type or country code
\* of the request has no carrier equivalent, build fails and produces no wire
\* request.
C7_UnmappedEnumFails ==
    /\ (Called("rate_request") /\ (UnmappedService(arg) \/ UnmappedPackaging(arg)))
            => Raised(result)
    /\ (Called("book_pickup_request") /\ UnmappedCountry(arg)) => Raised(result)

\* C7 (amended): an unmapped packaging type makes rate_request fail, and an
\* unmapped country code makes book_pickup_request fail, with a KeyError and
\* no wire request; requested service codes with no FedEx equivalent are
\* dropped, and the wire ServiceType is the first mapped one or absent.
C7_UnmappedEnumFailsButServicesDropped ==
    /\ Called("rate_request") =>
        /\ UnmappedPackaging(arg) => result = Raise("KeyError")
        /\ Raised(result) =>
            (UnmappedPackaging(arg) \/ UnsupportedUnit(arg.shipment.weight_unit))
        /\ Returned(result) => result.value.ServiceType = FirstMappedService(arg)
    /\ Called("book_pickup_request") =>
        /\ UnmappedCountry(arg) => result = Raise("KeyError")
        /\ Raised(result) =>
            (UnmappedCountry(arg) \/ (arg.weight # None /\ UnsupportedUnit(arg.weight_unit)))

\* C7 witness: a request whose first service has no FedEx equivalent was
\* built, with the second service in its place
C7_Witness ==
    /\ Called("rate_request")
    /\ arg.shipment.services = <<"UPS_GROUND", "FEDEX_FREIGHT_PRIORITY">>
    /\ Returned(result)
    /\ result.value.ServiceType = Some("FEDEX_FREIGHT_PRIORITY")

\* ---- C8
\* C8: parse_rate_response never raises: for every response tree, also one
\* whose details lack a total, an amount or have a DeliveryTimestamp in
\* another format, it returns (rates, errors) with every well-formed rate
\* reply detail of the document in rates.
C8_ParseRateResponseNeverRaises ==
    Called("parse_rate_response") =>
        /\ Returned(result)
        /\ \A i \in 1..Len(arg.RateReplyDetails) :
            WellFormedDetail(arg.RateReplyDetails[i]) =>
                \E j \in 1..Len(result.value[1]) :
                    /\ result.value[1][j].service_name = arg.RateReplyDetails[i].ServiceType
                    /\ result.value[1][j].extra_charges =
                            ChargesInDocumentOrder(arg.RateReplyDetails[i])

\* ---- C9
\* the Tins a party's own tax_id gives
OwnTins(tax_id) ==
    IF tax_id = None THEN None ELSE Some(<<[TinType |-> None, Number |-> tax_id]>>)

\* C9: in the wire request of rate_request the Shipper's Tins is present iff
\* shipper.tax_id is and carries it, and the Recipient's Tins is present iff
\* recipient.tax_id is and carries it.
C9_TinsFromOwnParty ==
    (Called("rate_request") /\ Returned(result)) =>
        /\ result.value.Shipper.Tins = OwnTins(arg.shipper.tax_id)
        /\ result.value.Recipient.Tins = OwnTins(arg.recipient.tax_id)

\* ---- C10
Unset(o) == o \in {None, Some("")}

\* the two unit defaults: weight unit "LB", dimension unit "IN"
UnitDefaults ==
    /\ (Called("rate_request") /\ Returned(result)) =>
        /\ Unset(arg.shipment.weight_unit) =>
            /\ result.value.TotalWeight.Units = "LB"
            /\ \A i \in 1..Len(result.value.RequestedPackageLineItems) :
                result.value.RequestedPackageLineItems[i].Weight.Units = "LB"
        /\ Unset(arg.shipment.dimension_unit) =>
            \A i \in 1..Len(result.value.RequestedPackageLineItems) :
                result.value.RequestedPackageLineItems[i].Dimensions.Units = "IN"
    /\ (Called("book_pickup_request") /\ Returned(result)
            /\ Unset(arg.weight_unit) /\ arg.weight # None) =>
        result.value.Pickup.weight =
            Some([Weight |-> 1000 * arg.weight[1], WeightUnit |-> "L"])

\* the other unset fields of the model get no constant: their wire value is
\* absent or None (total_weight: computed from the items)
NoOtherConstant ==
    /\ (Called("rate_request") /\ Returned(result)) =>
        /\ arg.shipment.currency = None =>
            (result.value.PreferredCurrency = None
                /\ result.value.RateRequestTypes = <<"LIST">>)
        /\ arg.shipment.services = <<>> => result.value.ServiceType = None
        /\ arg.shipment.total_weight = None =>
            result.value.TotalWeight.Value = 1000 * sum_weights(arg.shipment.items)
        /\ arg.recipient.account_number = None =>
            result.value.Recipient.AccountNumber = None
        /\ arg.recipient.tax_id = None =>
            (result.value.Recipient.Tins = None /\ result.value.Shipper.Tins = None)
        /\ arg.shipper.tax_id = None =>
            /\ \A i \in 1..Len(result.value.Shipper.Tins) :
                    result.value.Shipper.Tins[i][1].Number = None
            /\ \A i \in 1..Len(result.value.Recipient.Tins) :
                    result.value.Recipient.Tins[i][1].Number = None
    /\ (Called("book_pickup_request") /\ Returned(result)) =>
        /\ arg.weight = None => result.value.Pickup.weight = None
        /\ arg.country_code = None => result.value.Place.CountryCode = None
        /\ arg.package_location = None => result.value.Place.PackageLocation = None
        /\ arg.address_lines = <<>> =>
            (result.value.Place.Address1 = None /\ result.value.Place.Address2 = None)
        /\ arg.instruction = None => result.value.Pickup.SpecialInstructions = <<None>>

\* C10 (as claimed): build substitutes a default for exactly two unset
\* fields, weight unit and dimension unit; every other unset field, such as
\* country code or packaging type, gives an absent wire field or a failure.
C10_OnlyUnitDefaults ==
    /\ UnitDefaults
    /\ NoOtherConstant
    /\ (Called("rate_request") /\ Returned(result)) =>
        /\ Unset(arg.shipment.packaging_type) => result.value.PackagingType = None
        /\ Unset(arg.shipper.account_number) => result.value.Shipper.AccountNumber = None
    /\ (Called("book_pickup_request") /\ Returned(result)) =>
        /\ Unset(arg.country_code) => result.value.RegionCode = None
        /\ arg.is_business = None => result.value.Place.LocationType = None

\* C10 (amended): besides weight unit ("LB") and dimension unit ("IN"), build
\* substitutes a value for four more unset fields: packaging type
\* ("YOUR_PACKAGING") and the shipper's account number (the settings' account
\* number) in rate_request, the region code ("AM", when country_code is
\* unset) and the location type ("R", when is_business is unset) in
\* book_pickup_request; for the other unset fields the wire value is absent or
\* None, never a substituted constant.
C10_SixDefaults ==
    /\ UnitDefaults
    /\ NoOtherConstant
    /\ (Called("rate_request") /\ Returned(result)) =>
        /\ Unset(arg.shipment.packaging_type) =>
            result.value.PackagingType = Some("YOUR_PACKAGING")
        /\ Unset(arg.shipper.account_number) =>
            /\ result.value.Shipper.AccountNumber = Some(FedexSettings.account_number)
            /\ result.value.FreightShipmentDetail.FedExFreightAccountNumber =
                    Some(FedexSettings.account_number)
    /\ Called("book_pickup_request") =>
        /\ (Unset(arg.country_code) /\ ~(arg.weight # None /\ UnsupportedUnit(arg.weight_unit)))
            => (Returned(result) /\ result.value.RegionCode = Some("AM"))
        /\ (arg.is_business = None /\ Returned(result)) =>
            result.value.Place.LocationType = Some("R")

\* C10 witness: a pickup request without country code was built with the
\* region code "AM"
C10_Witness ==
    /\ Called("book_pickup_request")
    /\ arg.country_code = None
    /\ Returned(result)
    /\ result.value.RegionCode = Some("AM")
    /\ result.value.Place.CountryCode = None

\* ---- C11
\* no event type and no enabled_events entry of the tables holds "_"
NoUnderscores(database) ==
    /\ \A i \in 1..Len(database.events) : \A k \in 1..Len(database.events[i]) :
            database.events[i][k] # "_"
    /\ \A w \in 1..Len(database.webhooks) : \A i \in 1..Len(database.webhooks[w]) :
            \A k \in 1..Len(database.webhooks[w][i]) : database.webhooks[w][i][k] # "_"

\* C11: the event-type migration is reversible: from tables whose event types
\* and enabled_events are dot-separated names without underscores, running
\* forwards_func and then reverse_func restores every Event.type and every
\* Webhook.enabled_events entry.
C11_MigrationReversible ==
    (migration = "0003_reversed" /\ NoUnderscores(db0)) => db = db0

====
